---- MODULE Spec2Model ----
(***************************************************************************)
(* Model of examples/dynamicnet.py: the DynCLI shell that adds and removes *)
(* nodes, links and interfaces of a running Mininet network.               *)
(*                                                                         *)
(* A node object is identified by its name while it is alive; a node       *)
(* object that has been removed is a tombstone ("~host", "~switch",        *)
(* "~controller") in the link records that still point at it.  An          *)
(* interface object is the pair <<link id, side>>; the loopback control    *)
(* interface of a switch is lo.  A dict is a function with a finite        *)
(* domain.                                                                 *)
(***************************************************************************)
EXTENDS Integers, Sequences, FiniteSets, TLC

VARIABLES nodemap, nodelist, switches, hosts, controllers,
          ports, intfs, nameToIntf, links, fabric, last, snap, ncmds

vars == <<nodemap, nodelist, switches, hosts, controllers,
          ports, intfs, nameToIntf, links, fabric, last, snap, ncmds>>

\* ---------------------------------------------------------------- bounds
MaxLinks == 2
MaxPort == 2
FailPoints == 5
MaxCmds == 3

Names == {"c0", "s1", "h1"}
Kinds == {"host", "switch", "controller"}
Tombs == {"~host", "~switch", "~controller"}

\* ---------------------------------------------------------------- helpers
Range(q) == {q[i] : i \in DOMAIN q}

EmptyDict == [x \in {} |-> 0]

DictDel(d, k) == [x \in (DOMAIN d) \ {k} |-> d[x]]

DictPut(d, k, v) == [x \in (DOMAIN d) \cup {k} |-> IF x = k THEN v ELSE d[x]]

SeqRemove(q, e) == SelectSeq(q, LAMBDA x : x # e)

SetMax(S) == CHOOSE m \in S : \A x \in S : x <= m

SetMin(S) == CHOOSE m \in S : \A x \in S : m <= x

RECURSIVE SortedSeq(_)
SortedSeq(S) == IF S = {} THEN <<>>
                ELSE <<SetMin(S)>> \o SortedSeq(S \ {SetMin(S)})

lo == <<0, 0>>

loName == <<"lo", 0>>

\* One runtime call as it appears in the call log of a command.
RtEntry(c, n, p, i) == [call |-> c, node |-> n, peer |-> p, intf |-> i]

\* The state a handler works on: the program state plus the call log (rt),
\* the pending exception (exc), the reported error (err) and the index of the
\* runtime call that raises in this run (f, 0 for none).
Cur(f) == [nodemap |-> nodemap, nodelist |-> nodelist, switches |-> switches,
           hosts |-> hosts, controllers |-> controllers, ports |-> ports,
           intfs |-> intfs, nameToIntf |-> nameToIntf, links |-> links,
           fabric |-> fabric, rt |-> <<>>, exc |-> FALSE, err |-> "none",
           f |-> f]

\* A call into the runtime: logged, and raising when it is the f-th call.
RtCall(s, e) ==
    IF s.exc THEN s
    ELSE [s EXCEPT !.rt = Append(@, e),
                   !.exc = (Len(s.rt) + 1 = s.f),
                   !.err = IF Len(s.rt) + 1 = s.f THEN "RuntimeError" ELSE @]

\* ------------------------------------------------------- node objects
KindOfNode(s, n) ==
    IF n \in Range(s.hosts) \/ n = "~host" THEN "host"
    ELSE IF n \in Range(s.switches) \/ n = "~switch" THEN "switch"
    ELSE IF n \in Range(s.controllers) \/ n = "~controller" THEN "controller"
    ELSE "none"

TombOf(k) == CASE k = "host" -> "~host"
               [] k = "switch" -> "~switch"
               [] OTHER -> "~controller"

IntfLink(i) == i[1]

IntfNode(s, i) == IF i[2] = 1 THEN s.links[i[1]].node1 ELSE s.links[i[1]].node2

IntfName(s, i) == IF i = lo THEN loName
                  ELSE IF i[2] = 1 THEN s.links[i[1]].name1
                  ELSE s.links[i[1]].name2

portBase(s, n) == IF KindOfNode(s, n) = "switch" THEN 1 ELSE 0

newPort(s, n) ==
    IF DOMAIN s.ports[n] = {} THEN portBase(s, n)
    ELSE SetMax({s.ports[n][i] : i \in DOMAIN s.ports[n]}) + 1

addIntf(s, n, i, nm) ==
    LET p == newPort(s, n)
    IN [s EXCEPT !.intfs[n] = DictPut(@, p, i),
                 !.ports[n] = DictPut(@, i, p),
                 !.nameToIntf[n] = DictPut(@, nm, i)]

intfList(s, n) ==
    LET ps == SortedSeq(DOMAIN s.intfs[n])
    IN [k \in 1..Len(ps) |-> s.intfs[n][ps[k]]]

\* ------------------------------------------------ runtime (Mininet) effects
\* Mininet.addHost / addSwitch / addController: the node object joins its
\* kind container; a switch is born with its control interface lo on port 0.
mnAddNode(s, type, name) ==
    LET c == CASE type = "host" -> [s EXCEPT !.hosts = Append(@, name)]
               [] type = "switch" -> [s EXCEPT !.switches = Append(@, name)]
               [] OTHER -> [s EXCEPT !.controllers = Append(@, name)]
        fresh == [c EXCEPT !.ports[name] = EmptyDict,
                           !.intfs[name] = EmptyDict,
                           !.nameToIntf[name] = EmptyDict]
    IN IF type = "switch"
       THEN [fresh EXCEPT !.intfs[name] = DictPut(@, 0, lo),
                          !.ports[name] = DictPut(@, lo, 0),
                          !.nameToIntf[name] = DictPut(@, loName, lo)]
       ELSE fresh

FreeLinkIds(s) == (1..MaxLinks) \ DOMAIN s.links

\* Mininet.addLink: a new Link object with one new interface on each node,
\* each on the node's next port and named after it, joined by a medium.
mnAddLink(s, n1, n2) ==
    LET l == SetMin(FreeLinkIds(s))
        p1 == newPort(s, n1)
        s1 == addIntf(s, n1, <<l, 1>>, <<n1, p1>>)
        p2 == newPort(s1, n2)
        s2 == addIntf(s1, n2, <<l, 2>>, <<n2, p2>>)
    IN [s2 EXCEPT !.links = DictPut(@, l, [node1 |-> n1, node2 |-> n2,
                                            name1 |-> <<n1, p1>>,
                                            name2 |-> <<n2, p2>>,
                                            up |-> TRUE])]

\* Link.delete / Intf.delete: the medium of the link is torn down.
mediumDown(s, l) ==
    IF l \in DOMAIN s.links THEN [s EXCEPT !.links[l].up = FALSE] ELSE s

\* OVSSwitch.attach / OVSSwitch.detach: the switch fabric gains or loses the port.
ovsAttach(s, node, intf) == [s EXCEPT !.fabric = @ \cup {<<node, intf>>}]

ovsDetach(s, node, intf) == [s EXCEPT !.fabric = @ \ {<<node, intf>>}]

\* Node.stop: the entity is stopped; a switch loses its whole fabric.
nodeStop(s, node) == [s EXCEPT !.fabric = {e \in @ : e[1] # node}]

\* ---------------------------------------------------------------- DynCLI
_net_container(s, type) ==
    IF type = "switch" THEN s.switches
    ELSE IF type = "host" THEN s.hosts
    ELSE IF type = "controller" THEN s.controllers
    ELSE <<>>

\* _check_pair that forgets the second name.
_check_pair_first(s, name1, name2) == name1 \in s.nodemap

\* Both names are keys of nodemap (the error message is printed otherwise).
_check_pair(s, name1, name2) == name1 \in s.nodemap /\ name2 \in s.nodemap

\* The deletions with the nameToIntf entry forgotten.
tablesRemove_keepname(s, node, intf) ==
    IF node \notin Names THEN s
    ELSE IF intf \notin DOMAIN s.ports[node] THEN s
    ELSE LET port == s.ports[node][intf]
         IN IF port \notin DOMAIN s.intfs[node] THEN s
            ELSE [s EXCEPT !.intfs[node] = DictDel(@, port),
                           !.ports[node] = DictDel(@, intf)]

\* The three dict deletions under try/except: a KeyError stops the block
\* where it occurs and is swallowed.
tablesRemove(s, node, intf) ==
    IF node \notin Names THEN s
    ELSE IF intf \notin DOMAIN s.ports[node] THEN s
    ELSE LET port == s.ports[node][intf]
         IN IF port \notin DOMAIN s.intfs[node] THEN s
            ELSE [s EXCEPT !.intfs[node] = DictDel(@, port),
                           !.ports[node] = DictDel(@, intf),
                           !.nameToIntf[node] = DictDel(@, IntfName(s, intf))]

\* _node_deattach_intf emptying the node's tables instead of deleting one entry.
_node_deattach_intf_clear(s, node, intf) ==
    IF s.exc THEN s
    ELSE LET c == IF KindOfNode(s, node) = "switch"
                  THEN RtCall(s, RtEntry("detach", node, "", intf))
                  ELSE s
             s1 == IF KindOfNode(s, node) = "switch" /\ ~c.exc
                   THEN ovsDetach(c, node, intf) ELSE c
         IN IF s1.exc \/ node \notin Names THEN s1
            ELSE [s1 EXCEPT !.intfs[node] = EmptyDict,
                            !.ports[node] = EmptyDict,
                            !.nameToIntf[node] = EmptyDict]

_node_deattach_intf(s, node, intf) ==
    IF s.exc THEN s
    ELSE LET c == IF KindOfNode(s, node) = "switch"
                  THEN RtCall(s, RtEntry("detach", node, "", intf))
                  ELSE s
             s1 == IF KindOfNode(s, node) = "switch" /\ ~c.exc
                   THEN ovsDetach(c, node, intf) ELSE c
         IN IF s1.exc THEN s1 ELSE tablesRemove(s1, node, intf)

\* _node_attach_intf without the OVSSwitch branch.
_node_attach_intf_noswitch(s, node, intf) ==
    IF s.exc THEN s
    ELSE IF KindOfNode(s, node) = "host"
         THEN RtCall(s, RtEntry("configDefault", node, "", intf))
    ELSE s

_node_attach_intf(s, node, intf) ==
    IF s.exc THEN s
    ELSE IF KindOfNode(s, node) = "host"
         THEN RtCall(s, RtEntry("configDefault", node, "", intf))
    ELSE IF KindOfNode(s, node) = "switch"
         THEN LET c == RtCall(s, RtEntry("attach", node, "", intf))
              IN IF c.exc THEN c ELSE ovsAttach(c, node, intf)
    ELSE s

_delete_link(s, link) ==
    IF s.exc THEN s
    ELSE LET c == RtCall(s, RtEntry("linkDelete", "", "", <<link, 0>>))
             s1 == IF c.exc THEN c ELSE mediumDown(c, link)
             node1 == s.links[link].node1
             node2 == s.links[link].node2
             s2 == _node_deattach_intf(s1, node1, <<link, 1>>)
         IN _node_deattach_intf(s2, node2, <<link, 2>>)

\* _add_node without the test for a name that is already registered.
_add_node_nodup(s, type, name) ==
    LET c == RtCall(s, RtEntry("create", name, "", lo))
        s1 == IF c.exc THEN c ELSE mnAddNode(c, type, name)
        s2 == IF s1.exc \/ type = "host" THEN s1
              ELSE RtCall(s1, RtEntry("start", name, "", lo))
    IN IF s2.exc THEN s2
       ELSE [s2 EXCEPT !.nodelist = Append(@, name),
                       !.nodemap = @ \cup {name}]

\* _add_node with the switch and controller branches exchanged.
_add_node_swapped(s, type, name) ==
    IF name \in s.nodemap THEN [s EXCEPT !.err = "DuplicateNode"]
    ELSE LET made == IF type = "switch" THEN "controller"
                     ELSE IF type = "controller" THEN "switch" ELSE type
             c == RtCall(s, RtEntry("create", name, "", lo))
             s1 == IF c.exc THEN c ELSE mnAddNode(c, made, name)
             s2 == IF s1.exc \/ type = "host" THEN s1
                   ELSE RtCall(s1, RtEntry("start", name, "", lo))
         IN IF s2.exc THEN s2
            ELSE [s2 EXCEPT !.nodelist = Append(@, name),
                            !.nodemap = @ \cup {name}]

_add_node(s, type, name) ==
    IF name \in s.nodemap THEN [s EXCEPT !.err = "DuplicateNode"]
    ELSE LET c == RtCall(s, RtEntry("create", name, "", lo))
             s1 == IF c.exc THEN c ELSE mnAddNode(c, type, name)
             s2 == IF s1.exc \/ type = "host" THEN s1
                   ELSE RtCall(s1, RtEntry("start", name, "", lo))
         IN IF s2.exc THEN s2
            ELSE [s2 EXCEPT !.nodelist = Append(@, name),
                            !.nodemap = @ \cup {name}]

_add_intf(s, node_name, intf_name) == [s EXCEPT !.err = "Unimplemented"]

_add_link(s, name1, name2) ==
    IF ~_check_pair(s, name1, name2) THEN [s EXCEPT !.err = "UnknownNode"]
    ELSE LET c == RtCall(s, RtEntry("addLink", name1, name2, lo))
             link == SetMin(FreeLinkIds(s))
             s1 == IF c.exc THEN c ELSE mnAddLink(c, name1, name2)
             s2 == _node_attach_intf(s1, name1, <<link, 1>>)
         IN _node_attach_intf(s2, name2, <<link, 2>>)

\* A node object that left the registry and its container: the link records
\* that still point at it keep a tombstone of its kind.
bury(s, name, k) ==
    [s EXCEPT !.ports[name] = EmptyDict,
              !.intfs[name] = EmptyDict,
              !.nameToIntf[name] = EmptyDict,
              !.links = [l \in DOMAIN @ |->
                  [@[l] EXCEPT !.node1 = IF @ = name THEN TombOf(k) ELSE @,
                               !.node2 = IF @ = name THEN TombOf(k) ELSE @]]]

\* The cascade of _del_node stopping after the first link it destroys.
RECURSIVE delNodeLoop_first(_, _, _)
delNodeLoop_first(s, lst, k) ==
    IF k > Len(lst) \/ s.exc THEN s
    ELSE IF lst[k] # lo THEN _delete_link(s, IntfLink(lst[k]))
    ELSE delNodeLoop_first(s, lst, k + 1)

RECURSIVE delNodeLoop(_, _, _)
delNodeLoop(s, lst, k) ==
    IF k > Len(lst) \/ s.exc THEN s
    ELSE delNodeLoop(IF lst[k] # lo THEN _delete_link(s, IntfLink(lst[k])) ELSE s,
                     lst, k + 1)

\* _del_node stopping the node before it destroys the node's links.
_del_node_stopfirst(s, type, name) ==
    IF name \notin s.nodemap THEN [s EXCEPT !.err = "UnknownNode"]
    ELSE IF name \notin Range(_net_container(s, type))
         THEN [s EXCEPT !.err = "KindMismatch"]
    ELSE LET c == RtCall(s, RtEntry("stop", name, "", lo))
             s1 == IF c.exc THEN c ELSE nodeStop(c, name)
             s2 == delNodeLoop(s1, intfList(s, name), 1)
         IN IF s2.exc THEN s2
            ELSE bury([s2 EXCEPT
                        !.switches = IF type = "switch" THEN SeqRemove(@, name) ELSE @,
                        !.hosts = IF type = "host" THEN SeqRemove(@, name) ELSE @,
                        !.controllers = IF type = "controller" THEN SeqRemove(@, name) ELSE @,
                        !.nodemap = @ \ {name},
                        !.nodelist = SeqRemove(@, name)],
                      name, type)

_del_node(s, type, name) ==
    IF name \notin s.nodemap THEN [s EXCEPT !.err = "UnknownNode"]
    ELSE IF name \notin Range(_net_container(s, type))
         THEN [s EXCEPT !.err = "KindMismatch"]
    ELSE LET s1 == delNodeLoop(s, intfList(s, name), 1)
             c == RtCall(s1, RtEntry("stop", name, "", lo))
             s2 == IF c.exc THEN c ELSE nodeStop(c, name)
         IN IF s2.exc THEN s2
            ELSE bury([s2 EXCEPT
                        !.switches = IF type = "switch" THEN SeqRemove(@, name) ELSE @,
                        !.hosts = IF type = "host" THEN SeqRemove(@, name) ELSE @,
                        !.controllers = IF type = "controller" THEN SeqRemove(@, name) ELSE @,
                        !.nodemap = @ \ {name},
                        !.nodelist = SeqRemove(@, name)],
                      name, type)

_del_intf(s, node_name, intf_name) ==
    IF node_name \notin s.nodemap THEN [s EXCEPT !.err = "UnknownNode"]
    ELSE IF intf_name \notin DOMAIN s.nameToIntf[node_name]
         THEN [s EXCEPT !.err = "NameError", !.exc = TRUE]
    ELSE LET intf == s.nameToIntf[node_name][intf_name]
             s1 == _node_deattach_intf(s, node_name, intf)
             c == RtCall(s1, RtEntry("intfDelete", node_name, "", intf))
         IN IF c.exc \/ intf = lo THEN c ELSE mediumDown(c, IntfLink(intf))

\* The endpoint test of _del_link looking at the source node only.
LinkMatches_any(s, link, src, dst) ==
    s.links[link].node1 = src \/ s.links[link].node2 = src

LinkMatches(s, link, src, dst) ==
    \/ s.links[link].node1 = src /\ s.links[link].node2 = dst
    \/ s.links[link].node1 = dst /\ s.links[link].node2 = src

\* The scan of _del_link without its break.
RECURSIVE delLinkLoop_nobreak(_, _, _, _, _, _)
delLinkLoop_nobreak(s, lst, k, src, dst, all) ==
    IF k > Len(lst) \/ s.exc THEN s
    ELSE IF lst[k] # lo /\ LinkMatches(s, IntfLink(lst[k]), src, dst)
         THEN delLinkLoop_nobreak(_delete_link(s, IntfLink(lst[k])),
                                  lst, k + 1, src, dst, all)
    ELSE delLinkLoop_nobreak(s, lst, k + 1, src, dst, all)

RECURSIVE delLinkLoop(_, _, _, _, _, _)
delLinkLoop(s, lst, k, src, dst, all) ==
    IF k > Len(lst) \/ s.exc THEN s
    ELSE IF lst[k] # lo /\ LinkMatches(s, IntfLink(lst[k]), src, dst)
         THEN LET s1 == _delete_link(s, IntfLink(lst[k]))
              IN IF ~all THEN s1 ELSE delLinkLoop(s1, lst, k + 1, src, dst, all)
    ELSE delLinkLoop(s, lst, k + 1, src, dst, all)

_del_link(s, name1, name2, all) ==
    IF ~_check_pair(s, name1, name2) THEN [s EXCEPT !.err = "UnknownNode"]
    ELSE delLinkLoop(s, intfList(s, name1), 1, name1, name2, all)

\* ------------------------------------------------------------ bookkeeping
IntfBound(s, i) == \E n \in Names : i \in DOMAIN s.ports[n]

\* A Link object is reachable only through its interfaces: once its medium
\* is down and neither interface sits in a node's tables, it is garbage.
collect(s) ==
    LET keep == {l \in DOMAIN s.links :
                    \/ s.links[l].up
                    \/ IntfBound(s, <<l, 1>>)
                    \/ IntfBound(s, <<l, 2>>)}
    IN [s EXCEPT !.links = [l \in keep |-> s.links[l]]]

NoIntfName == <<"", 0>>

Cmd(op, type, name1, name2, intf, all) ==
    [op |-> op, type |-> type, name1 |-> name1, name2 |-> name2,
     intf |-> intf, all |-> all]

\* What the shell knows about the command it has just run.
Outcome(c, s) ==
    [op |-> c.op, type |-> c.type, name1 |-> c.name1, name2 |-> c.name2,
     intf |-> c.intf, all |-> c.all, err |-> s.err, exc |-> s.exc, rt |-> s.rt]

NoSnap == [stage |-> 0, a |-> "", b |-> "", nodemap |-> {}, nodelist |-> <<>>,
           ports |-> EmptyDict, intfs |-> EmptyDict, nameToIntf |-> EmptyDict,
           links |-> EmptyDict]

\* History of an addLink(a, b) that ran to its end (stage 1) and of the
\* delLink(a, b) that ran to its end right after it (stage 2), with the
\* registry and the interface tables as they were before the addLink.
NextSnap(c, s) ==
    IF c.op = "addLink" /\ ~s.exc /\ s.err = "none"
    THEN [stage |-> 1, a |-> c.name1, b |-> c.name2, nodemap |-> nodemap,
          nodelist |-> nodelist, ports |-> ports, intfs |-> intfs,
          nameToIntf |-> nameToIntf, links |-> links]
    ELSE IF /\ c.op = "delLink" /\ ~s.exc /\ s.err = "none"
            /\ snap.stage = 1 /\ snap.a = c.name1 /\ snap.b = c.name2
    THEN [snap EXCEPT !.stage = 2]
    ELSE NoSnap

Commit(c, s0) ==
    LET s == collect(s0)
    IN /\ nodemap' = s.nodemap
       /\ nodelist' = s.nodelist
       /\ switches' = s.switches
       /\ hosts' = s.hosts
       /\ controllers' = s.controllers
       /\ ports' = s.ports
       /\ intfs' = s.intfs
       /\ nameToIntf' = s.nameToIntf
       /\ links' = s.links
       /\ fabric' = s.fabric
       /\ last' = Outcome(c, s)
       /\ snap' = NextSnap(c, s)
       /\ ncmds' = ncmds + 1

\* ------------------------------------------------------------ dispatch
\* The interface names a command line can carry, as the model names them.
IntfToks == {"lo", "s1-eth1", "h1-eth0"}

intfNameOf(tok) ==
    CASE tok = "lo" -> loName
      [] tok = "s1-eth1" -> <<"s1", 1>>
      [] tok = "h1-eth0" -> <<"h1", 0>>
      [] OTHER -> NoIntfName

NoArgs(e) == [ok |-> FALSE, err |-> e, args |-> <<>>, param |-> <<>>]

\* _parse_args without the test of the component type.
_parse_args_nokind(line) ==
    LET args == line
    IN IF Len(args) < 2 THEN NoArgs("BadArity")
       ELSE IF args[1] = "link" /\ Len(args) < 3 THEN NoArgs("BadArity")
       ELSE IF args[1] = "intf" /\ Len(args) < 3 THEN NoArgs("BadArity")
       ELSE LET opt_pos == IF args[1] \in {"link", "intf"} THEN 4 ELSE 3
            IN [ok |-> TRUE, err |-> "none", args |-> args,
                param |-> SubSeq(args, opt_pos, Len(args))]

\* line is the command line after line.split(); the option tokens are kept
\* as they are written.
_parse_args(line) ==
    LET args == line
    IN IF Len(args) < 2 THEN NoArgs("BadArity")
       ELSE IF args[1] \notin {"switch", "host", "controller", "intf", "link"}
            THEN NoArgs("UnknownKind")
       ELSE IF args[1] = "link" /\ Len(args) < 3 THEN NoArgs("BadArity")
       ELSE IF args[1] = "intf" /\ Len(args) < 3 THEN NoArgs("BadArity")
       ELSE LET opt_pos == IF args[1] \in {"link", "intf"} THEN 4 ELSE 3
            IN [ok |-> TRUE, err |-> "none", args |-> args,
                param |-> SubSeq(args, opt_pos, Len(args))]

do_add(s, line) ==
    LET p == _parse_args(line)
    IN IF ~p.ok THEN [s EXCEPT !.err = p.err]
       ELSE IF p.args[1] = "link" THEN _add_link(s, p.args[2], p.args[3])
       ELSE IF p.args[1] = "intf"
            THEN _add_intf(s, p.args[2], intfNameOf(p.args[3]))
       ELSE _add_node(s, p.args[1], p.args[2])

do_del(s, line) ==
    LET p == _parse_args(line)
    IN IF ~p.ok THEN [s EXCEPT !.err = p.err]
       ELSE IF p.args[1] = "link" THEN _del_link(s, p.args[2], p.args[3], TRUE)
       ELSE IF p.args[1] = "intf"
            THEN _del_intf(s, p.args[2], intfNameOf(p.args[3]))
       ELSE _del_node(s, p.args[1], p.args[2])

\* ------------------------------------------------------------ the program
EmptyNet ==
    [nodemap |-> {}, nodelist |-> <<>>, switches |-> <<>>, hosts |-> <<>>,
     controllers |-> <<>>, ports |-> [n \in Names |-> EmptyDict],
     intfs |-> [n \in Names |-> EmptyDict],
     nameToIntf |-> [n \in Names |-> EmptyDict],
     links |-> EmptyDict, fabric |-> {}, rt |-> <<>>, exc |-> FALSE,
     err |-> "none", f |-> 0]

\* The network main() starts: a controller, a switch and a host linked to
\* the switch, the switch port attached by Switch.start.
StartedNet ==
    ovsAttach(mnAddLink(mnAddNode(mnAddNode(mnAddNode(EmptyNet,
        "controller", "c0"), "switch", "s1"), "host", "h1"), "h1", "s1"),
        "s1", <<1, 2>>)

\* CLI.__init__: the registry is built from the network's containers.
cliNodelist(s) == s.controllers \o s.switches \o s.hosts

Init ==
    /\ nodelist = cliNodelist(StartedNet)
    /\ nodemap = Range(cliNodelist(StartedNet))
    /\ switches = StartedNet.switches
    /\ hosts = StartedNet.hosts
    /\ controllers = StartedNet.controllers
    /\ ports = StartedNet.ports
    /\ intfs = StartedNet.intfs
    /\ nameToIntf = StartedNet.nameToIntf
    /\ links = StartedNet.links
    /\ fabric = StartedNet.fabric
    /\ last = Outcome(Cmd("start", "", "", "", NoIntfName, FALSE), StartedNet)
    /\ snap = NoSnap
    /\ ncmds = 0

IntfNames == {loName} \cup {<<n, p>> : n \in Names, p \in 0..MaxPort}

\* addLink stays within the bounds of the model.
LinkRoom(n1, n2) ==
    \/ ~_check_pair(Cur(0), n1, n2)
    \/ /\ FreeLinkIds(Cur(0)) # {}
       /\ newPort(Cur(0), n1) + (IF n1 = n2 THEN 1 ELSE 0) <= MaxPort
       /\ newPort(Cur(0), n2) <= MaxPort

\* The shell is at its prompt and may read one more command.
Prompt == ~last.exc /\ ncmds < MaxCmds

AddNode ==
    /\ Prompt
    /\ \E type \in Kinds, name \in Names, f \in 0..FailPoints :
          Commit(Cmd("addNode", type, name, "", NoIntfName, FALSE),
                 _add_node(Cur(f), type, name))

DelNode ==
    /\ Prompt
    /\ \E type \in Kinds, name \in Names, f \in 0..FailPoints :
          Commit(Cmd("delNode", type, name, "", NoIntfName, FALSE),
                 _del_node(Cur(f), type, name))

AddLink ==
    /\ Prompt
    /\ \E name1 \in Names, name2 \in Names, f \in 0..FailPoints :
          /\ LinkRoom(name1, name2)
          /\ Commit(Cmd("addLink", "", name1, name2, NoIntfName, FALSE),
                    _add_link(Cur(f), name1, name2))

DelLink ==
    /\ Prompt
    /\ \E name1 \in Names, name2 \in Names, all \in BOOLEAN, f \in 0..FailPoints :
          Commit(Cmd("delLink", "", name1, name2, NoIntfName, all),
                 _del_link(Cur(f), name1, name2, all))

AddIntf ==
    /\ Prompt
    /\ \E node_name \in Names, intf_name \in IntfNames :
          Commit(Cmd("addIntf", "", node_name, "", intf_name, FALSE),
                 _add_intf(Cur(0), node_name, intf_name))

DelIntf ==
    /\ Prompt
    /\ \E node_name \in Names, intf_name \in IntfNames, f \in 0..FailPoints :
          Commit(Cmd("delIntf", "", node_name, "", intf_name, FALSE),
                 _del_intf(Cur(f), node_name, intf_name))

\* main(): an exception that escapes the shell is reported and a new DynCLI
\* is built on the same network.
Restart ==
    /\ last.exc
    /\ nodelist' = cliNodelist(Cur(0))
    /\ nodemap' = Range(cliNodelist(Cur(0)))
    /\ last' = Outcome(Cmd("restart", "", "", "", NoIntfName, FALSE), Cur(0))
    /\ snap' = NoSnap
    /\ UNCHANGED <<switches, hosts, controllers, ports, intfs, nameToIntf,
                   links, fabric, ncmds>>

Next == AddNode \/ DelNode \/ AddLink \/ DelLink \/ AddIntf \/ DelIntf \/ Restart

Spec == Init /\ [][Next]_vars

\* ------------------------------------------------------------ the shell
\* The first words of a command line and the lines the shell is given.
Words == Kinds \cup {"link", "intf", "node"}

Lines ==
    {<<>>} \cup {<<w>> : w \in Words}
    \cup {<<w, n>> : w \in Words, n \in Names}
    \cup {<<w, a, b>> : w \in {"link", "node"}, a \in Names, b \in Names}
    \cup {<<"intf", n, i>> : n \in Names, i \in IntfToks}

Tok(line, k) == IF k <= Len(line) THEN line[k] ELSE ""

\* The line as the shell's history keeps it: verb, then the first three
\* tokens ("" for a token the line does not have).
LineCmd(verb, line) ==
    Cmd(verb, Tok(line, 1), Tok(line, 2), Tok(line, 3), NoIntfName, FALSE)

\* add link stays within the bounds of the model.
LineRoom(line) ==
    (_parse_args(line).ok /\ line[1] = "link") => LinkRoom(line[2], line[3])

DoAdd ==
    /\ Prompt
    /\ \E line \in Lines, f \in 0..FailPoints :
          /\ LineRoom(line)
          /\ Commit(LineCmd("add", line), do_add(Cur(f), line))

DoDel ==
    /\ Prompt
    /\ \E line \in Lines, f \in 0..FailPoints :
          Commit(LineCmd("del", line), do_del(Cur(f), line))

ShellNext == DoAdd \/ DoDel \/ Restart

ShellSpec == Init /\ [][ShellNext]_vars

\* ------------------------------------------------------------ sanity
TablesAgree ==
    \A n \in Names :
        /\ \A i \in DOMAIN ports[n] :
              ports[n][i] \in DOMAIN intfs[n] /\ intfs[n][ports[n][i]] = i
        /\ \A p \in DOMAIN intfs[n] :
              intfs[n][p] \in DOMAIN ports[n] /\ ports[n][intfs[n][p]] = p
        /\ \A i \in DOMAIN ports[n] : i = lo \/ IntfLink(i) \in DOMAIN links
        /\ \A e \in fabric : e[1] \in Names => e[2] \in DOMAIN ports[e[1]]

\* ------------------------------------------------------------ properties
\* The program state of the step is left as it was.
CoreUnchanged ==
    UNCHANGED <<nodemap, nodelist, switches, hosts, controllers, ports, intfs,
                nameToIntf, links, fabric>>

\* The command of the step reported the error, issued no runtime call and
\* changed nothing.
Rejected(e) ==
    /\ last'.err = e
    /\ last'.rt = <<>>
    /\ ~last'.exc
    /\ CoreUnchanged

\* The command of the step ran to its end.
Completed == last'.err = "none" /\ ~last'.exc

\* The links that have an interface in the tables of node n.
LinksOn(n) == {l \in DOMAIN links : \E i \in DOMAIN ports[n] : IntfLink(i) = l}

\* The link record r has its two ends on a and b, in either orientation.
Joins(r, a, b) == {r.node1, r.node2} = {a, b}

\* The interfaces of a that belong to a link joining a and b, in port order.
MatchesOf(a, b) ==
    LET ps == SortedSeq(DOMAIN intfs[a])
    IN SelectSeq([k \in 1..Len(ps) |-> intfs[a][ps[k]]],
                 LAMBDA i : i # lo /\ Joins(links[IntfLink(i)], a, b))

\* Neither interface of link l is in any table and its record is gone.
GoneAfter(l) ==
    /\ l \notin DOMAIN links'
    /\ \A n \in Names : <<l, 1>> \notin DOMAIN ports'[n]
                        /\ <<l, 2>> \notin DOMAIN ports'[n]

\* Link l and the table entries of its interfaces are as before the step.
KeptAfter(l) ==
    /\ l \in DOMAIN links' /\ links'[l] = links[l]
    /\ \A n \in Names : \A i \in {<<l, 1>>, <<l, 2>>} :
          (i \in DOMAIN ports[n]) <=> (i \in DOMAIN ports'[n])

CallsOf(rt, c) == {k \in DOMAIN rt : rt[k].call = c}

\* C1: addNode with a name that is already registered reports DuplicateNode,
\* issues no runtime call and leaves the registry, the kind containers and
\* every interface table unchanged, whatever the kind asked for.
DuplicateAddRejected ==
    [][(last'.op = "addNode" /\ last'.name1 \in nodemap)
          => Rejected("DuplicateNode")]_vars

DuplicateAddSeen ==
    /\ last.op = "addNode" /\ last.err = "DuplicateNode"
    /\ last.type = "controller" /\ last.name1 \in Range(switches)

\* The registry and the tables of both nodes are those of the snapshot.
RoundTripRestored ==
    /\ nodemap = snap.nodemap
    /\ nodelist = snap.nodelist
    /\ \A n \in {snap.a, snap.b} :
          /\ ports[n] = snap.ports[n]
          /\ intfs[n] = snap.intfs[n]
          /\ nameToIntf[n] = snap.nameToIntf[n]

\* Before the addLink no interface of a belonged to a link joining a and b.
RoundTripFresh ==
    \A i \in DOMAIN snap.ports[snap.a] :
        i = lo \/ ~Joins(snap.links[IntfLink(i)], snap.a, snap.b)

\* C2 as stated: for any two distinct registered nodes, addLink(A, B) followed
\* by delLink(A, B) restores the registry and both nodes' interface tables.
RoundTripAlways ==
    (snap.stage = 2 /\ snap.a # snap.b) => RoundTripRestored

\* C2 amended: addLink(A, B) followed by delLink(A, B) restores the registry
\* and both nodes' interface tables when, before the addLink, no interface of
\* A belonged to a link joining A and B.
RoundTripWhenFresh ==
    (snap.stage = 2 /\ snap.a # snap.b /\ RoundTripFresh) => RoundTripRestored

RoundTripSeen ==
    /\ snap.stage = 2 /\ snap.a # snap.b /\ RoundTripFresh
    /\ CallsOf(last.rt, "linkDelete") # {}
    /\ DOMAIN snap.ports[snap.b] # {}

\* C3: a delNode(A) that runs to its end destroys every link on A's
\* interfaces, removes the interfaces of both ends from their owners' tables,
\* unregisters A and leaves every other node registered.
CascadeRemovesLinks ==
    [][(last'.op = "delNode" /\ Completed)
          => /\ \A l \in LinksOn(last'.name1) : GoneAfter(l)
             /\ last'.name1 \notin nodemap'
             /\ last'.name1 \notin Range(nodelist')
             /\ nodemap' = nodemap \ {last'.name1}]_vars

CascadeSeen ==
    /\ last.op = "delNode" /\ last.err = "none" /\ ~last.exc
    /\ Cardinality({last.rt[k].intf : k \in CallsOf(last.rt, "linkDelete")}) >= 2
    /\ Cardinality(nodemap) >= 2
    /\ \A n \in nodemap : \A i \in DOMAIN ports[n] : i = lo

\* C4: with two or more links between distinct nodes A and B on A's interface
\* list, delLink(A, B, all = false) destroys the first of them in the order of
\* that list and leaves every other link as it was; with all = true it
\* destroys every one of them.
ParallelLinksDeleted ==
    [][(/\ last'.op = "delLink" /\ Completed
        /\ last'.name1 # last'.name2
        /\ Len(MatchesOf(last'.name1, last'.name2)) >= 2)
          => LET m == MatchesOf(last'.name1, last'.name2)
                 hit == IF last'.all THEN {IntfLink(m[k]) : k \in DOMAIN m}
                        ELSE {IntfLink(m[1])}
             IN /\ \A l \in hit : GoneAfter(l)
                /\ \A l \in (DOMAIN links) \ hit : KeptAfter(l)]_vars

ParallelLinksSeen ==
    /\ last.op = "delLink" /\ ~last.all /\ last.err = "none" /\ ~last.exc
    /\ Cardinality(CallsOf(last.rt, "linkDelete")) = 1
    /\ \E l \in DOMAIN links :
          /\ Joins(links[l], last.name1, last.name2)
          /\ links[l].up
          /\ <<l, 1>> \in DOMAIN ports[links[l].node1]
          /\ <<l, 2>> \in DOMAIN ports[links[l].node2]

\* C5: addLink(A, A) on a registered node is refused with InvalidLink, issues
\* no runtime call and creates no interface on A.
SelfLinkRejected ==
    [][(/\ last'.op = "addLink" /\ last'.name1 = last'.name2
        /\ last'.name1 \in nodemap)
          => Rejected("InvalidLink")]_vars

\* C6: detach applied again to an interface that is already out of its
\* node's tables raises no error and changes nothing, for a host and for a
\* switch.
DetachTwiceIsNoOp ==
    \A l \in DOMAIN links : \A side \in {1, 2} : \A f \in {0, 1} :
        LET i == <<l, side>>
            n == IntfNode(Cur(0), i)
            r == _node_deattach_intf(Cur(f), n, i)
        IN (n \in nodemap /\ i \notin DOMAIN ports[n])
              => /\ ~r.exc
                 /\ r.ports = ports /\ r.intfs = intfs
                 /\ r.nameToIntf = nameToIntf /\ r.fabric = fabric

\* C7: delNode of an unregistered name, delNode asking for a kind the node
\* does not have, and addLink or delLink naming an unregistered node are
\* refused before any runtime call and leave the whole state unchanged.
ValidationRejects ==
    [][/\ (last'.op = "delNode" /\ last'.name1 \notin nodemap)
            => Rejected("UnknownNode")
       /\ (/\ last'.op = "delNode" /\ last'.name1 \in nodemap
           /\ KindOfNode(Cur(0), last'.name1) # last'.type)
            => Rejected("KindMismatch")
       /\ (/\ last'.op \in {"addLink", "delLink"}
           /\ (last'.name1 \notin nodemap \/ last'.name2 \notin nodemap))
            => Rejected("UnknownNode")]_vars

ValidationSeen ==
    /\ last.op = "delNode" /\ last.err = "KindMismatch"
    /\ last.name1 \in nodemap /\ last.rt = <<>>

\* C8: delLink(A, B) on two registered nodes that no link joins reports no
\* error, issues no runtime call and changes nothing.
DelLinkWithoutLink ==
    [][(/\ last'.op = "delLink"
        /\ last'.name1 \in nodemap /\ last'.name2 \in nodemap
        /\ \A l \in DOMAIN links : ~Joins(links[l], last'.name1, last'.name2))
          => Rejected("none")]_vars

DelLinkWithoutLinkSeen ==
    /\ last.op = "delLink" /\ last.err = "none" /\ last.rt = <<>>
    /\ last.name1 # last.name2
    /\ DOMAIN ports[last.name1] # {} /\ DOMAIN ports[last.name2] # {}

BothBound(l) ==
    /\ links[l].node1 \in Names /\ <<l, 1>> \in DOMAIN ports[links[l].node1]
    /\ links[l].node2 \in Names /\ <<l, 2>> \in DOMAIN ports[links[l].node2]

NoneBound(l) == \A n \in Names : <<l, 1>> \notin DOMAIN ports[n]
                                 /\ <<l, 2>> \notin DOMAIN ports[n]

\* C9: a link's medium is up exactly when both of its interfaces are in their
\* owners' tables, and no link is left with one interface only in the tables.
LinkIffBothBound ==
    \A l \in DOMAIN links :
        /\ links[l].up <=> BothBound(l)
        /\ BothBound(l) \/ NoneBound(l)

\* C10: the name map, the ordered node list and the kind containers hold the
\* same set of nodes.
RegistryMatchesRuntime ==
    /\ nodemap = Range(nodelist)
    /\ nodemap = Range(switches) \cup Range(hosts) \cup Range(controllers)

\* Neither interface of link l is in a node's tables after the step.
UnboundAfter(l) ==
    \A n \in Names : <<l, 1>> \notin DOMAIN ports'[n]
                     /\ <<l, 2>> \notin DOMAIN ports'[n]

\* The k-th runtime call of the step returned (it is not the one that raised).
Returned(k) == k < Len(last'.rt) \/ ~last'.exc

\* C11: once destroy(link) has torn down the medium, both interfaces are
\* detached whatever the detach of the first one does: no destruction ends
\* with an interface of the link still in a node's tables.
DestroyDetachesBoth ==
    [][\A k \in CallsOf(last'.rt, "linkDelete") :
          Returned(k) => UnboundAfter(last'.rt[k].intf[1])]_vars

\* The delNode of the step passed both validation tests.
DelNodeValid ==
    /\ last'.op = "delNode"
    /\ last'.name1 \in nodemap
    /\ last'.name1 \in Range(IF last'.type = "switch" THEN switches
                             ELSE IF last'.type = "host" THEN hosts
                             ELSE controllers)

\* C12: a delNode that has passed validation ends with the node out of the
\* name map and of the ordered list, also when a runtime step of the cascade
\* fails.
DelNodeAlwaysUnregisters ==
    [][DelNodeValid => /\ last'.name1 \notin nodemap'
                       /\ last'.name1 \notin Range(nodelist')]_vars

\* C13: an addLink in which a runtime step fails leaves the state as it was
\* before the addLink.
AddLinkRollsBack ==
    [][(last'.op = "addLink" /\ last'.exc) => CoreUnchanged]_vars

\* C14: the medium of a link is torn down at most once: every teardown a
\* command issues is for a link whose medium was up when the command began,
\* and no command issues two teardowns for one link.
LinkTornDownOnce ==
    [][\A k \in CallsOf(last'.rt, "linkDelete") :
          LET l == last'.rt[k].intf[1]
          IN /\ l \in DOMAIN links /\ links[l].up
             /\ \A j \in CallsOf(last'.rt, "linkDelete") :
                   j < k => last'.rt[j].intf # last'.rt[k].intf]_vars

\* The kind containers that hold name n after the step.
ContainersOfAfter(n) ==
    {k \in Kinds : n \in Range(CASE k = "switch" -> switches'
                                 [] k = "host" -> hosts'
                                 [] OTHER -> controllers')}

\* C15: an addNode(kind, name) of an unregistered name that runs to its end
\* leaves the name registered and the node in the container of the kind
\* asked for and in no other.
AddedNodeHasKind ==
    [][(last'.op = "addNode" /\ last'.name1 \notin nodemap /\ Completed)
          => /\ last'.name1 \in nodemap'
             /\ nodelist' = Append(nodelist, last'.name1)
             /\ ContainersOfAfter(last'.name1) = {last'.type}]_vars

AddedNodeSeen ==
    /\ last.op = "addNode" /\ last.err = "none" /\ ~last.exc
    /\ last.type = "controller"
    /\ last.name1 \in Range(controllers) /\ last.name1 \in nodemap

\* Table d grew by the one entry k |-> v.
GrewBy(d, e, k, v) ==
    /\ k \notin DOMAIN d
    /\ DOMAIN e = DOMAIN d \cup {k}
    /\ e[k] = v
    /\ \A x \in DOMAIN d : e[x] = d[x]

\* Node n got interface i of the new link: one new entry in each table, the
\* interface attached when n is a switch and configured when n is a host.
EndpointGot(n, i) ==
    /\ \E p \in 0..(MaxPort + 1) :
          /\ GrewBy(ports[n], ports'[n], i, p)
          /\ GrewBy(intfs[n], intfs'[n], p, i)
          /\ GrewBy(nameToIntf[n], nameToIntf'[n], <<n, p>>, i)
    /\ n \in Range(switches) => <<n, i>> \in fabric'
    /\ n \in Range(hosts) =>
          \E k \in CallsOf(last'.rt, "configDefault") : last'.rt[k].node = n

\* C16: an addLink between two distinct registered nodes that runs to its end
\* adds one interface to each endpoint's tables, both of the same new link,
\* fabric-attached on a switch and configured on a host, and changes no
\* other node's tables.
AddLinkAddsOneEach ==
    [][(/\ last'.op = "addLink" /\ Completed
        /\ last'.name1 # last'.name2)
          => \E l \in (DOMAIN links') \ (DOMAIN links) :
                /\ DOMAIN links' = DOMAIN links \cup {l}
                /\ links'[l].node1 = last'.name1
                /\ links'[l].node2 = last'.name2
                /\ links'[l].up
                /\ EndpointGot(last'.name1, <<l, 1>>)
                /\ EndpointGot(last'.name2, <<l, 2>>)
                /\ \A n \in Names \ {last'.name1, last'.name2} :
                      /\ ports'[n] = ports[n]
                      /\ intfs'[n] = intfs[n]
                      /\ nameToIntf'[n] = nameToIntf[n]]_vars

AddLinkSeen ==
    /\ last.op = "addLink" /\ last.err = "none" /\ ~last.exc
    /\ last.name1 \in Range(hosts) /\ last.name2 \in Range(switches)
    /\ CallsOf(last.rt, "attach") # {} /\ CallsOf(last.rt, "configDefault") # {}

\* C17: a command line that fails the dispatch validation (fewer than two
\* tokens, a first word outside switch/host/controller/intf/link, or a link
\* or intf line with fewer than three tokens) is reported as an error, issues
\* no runtime call and leaves the registry, the interface tables and the links
\* as they were, for add and for del.
FailsValidation(l) ==
    \/ l.name1 = ""
    \/ l.type \notin {"switch", "host", "controller", "intf", "link"}
    \/ l.type \in {"link", "intf"} /\ l.name2 = ""

DispatchRejects ==
    [][(last'.op \in {"add", "del"} /\ FailsValidation(last'))
          => /\ last'.err \in {"BadArity", "UnknownKind"}
             /\ last'.rt = <<>>
             /\ ~last'.exc
             /\ CoreUnchanged]_vars

DispatchRejectSeen ==
    /\ last.op = "del" /\ last.type = "node" /\ last.name1 \in nodemap
    /\ last.err = "UnknownKind" /\ last.rt = <<>>
    /\ ncmds > 1

\* C18: within delNode the runtime entity is stopped only after every link
\* on the node's interfaces has been torn down and detached, and the node
\* leaves the registry only after the stop has returned.
StopAfterLinks ==
    [][last'.op = "delNode"
          => /\ \A k \in CallsOf(last'.rt, "stop") :
                   /\ \A l \in LinksOn(last'.name1) :
                         \E j \in CallsOf(last'.rt, "linkDelete") :
                             j < k /\ last'.rt[j].intf[1] = l
                   /\ \A j \in CallsOf(last'.rt, "linkDelete")
                                 \cup CallsOf(last'.rt, "detach") : j < k
             /\ (last'.name1 \in nodemap /\ last'.name1 \notin nodemap')
                   => \E k \in CallsOf(last'.rt, "stop") : Returned(k)]_vars

StopAfterLinksSeen ==
    /\ last.op = "delNode" /\ last.err = "none" /\ ~last.exc
    /\ CallsOf(last.rt, "linkDelete") # {}
    /\ CallsOf(last.rt, "detach") # {}
    /\ last.rt[Len(last.rt)].call = "stop"

\* The program state a handler leaves, without the call log.
CoreOf(s) ==
    <<s.nodemap, s.nodelist, s.switches, s.hosts, s.controllers, s.ports,
      s.intfs, s.nameToIntf, s.links, s.fabric>>

\* C19: at the shell's prompt, delLink(A, B) and delLink(B, A) with all = true
\* lead to the same state, and neither changes a link that joins A or B to a
\* third node.
DelLinkSymmetric ==
    ~last.exc =>
    \A a \in nodemap : \A b \in nodemap \ {a} :
        LET x == collect(_del_link(Cur(0), a, b, TRUE))
            y == collect(_del_link(Cur(0), b, a, TRUE))
        IN /\ CoreOf(x) = CoreOf(y)
           /\ \A l \in DOMAIN links :
                 ~Joins(links[l], a, b)
                    => l \in DOMAIN x.links /\ x.links[l] = links[l]

\* C20: a delNode(A) leaves the other nodes registered in their order, leaves
\* every link that has no end on A as it was, and takes from another node's
\* tables only interfaces of links that had an end on A.
DelNodeFrame ==
    [][last'.op = "delNode"
          => LET A == last'.name1
             IN /\ SeqRemove(nodelist', A) = SeqRemove(nodelist, A)
                /\ nodemap' \ {A} = nodemap \ {A}
                /\ \A l \in DOMAIN links :
                      (links[l].node1 # A /\ links[l].node2 # A) => KeptAfter(l)
                /\ \A n \in Names \ {A} :
                      /\ DOMAIN ports'[n] \subseteq DOMAIN ports[n]
                      /\ \A i \in DOMAIN ports'[n] : ports'[n][i] = ports[n][i]
                      /\ \A i \in (DOMAIN ports[n]) \ (DOMAIN ports'[n]) :
                            /\ i # lo
                            /\ A \in {links[IntfLink(i)].node1,
                                      links[IntfLink(i)].node2}
                      /\ \A p \in DOMAIN intfs[n] :
                            intfs[n][p] \in DOMAIN ports'[n]
                               => (p \in DOMAIN intfs'[n]
                                   /\ intfs'[n][p] = intfs[n][p])]_vars

DelNodeFrameSeen ==
    /\ last.op = "delNode" /\ last.err = "none" /\ ~last.exc
    /\ CallsOf(last.rt, "linkDelete") # {}
    /\ \E l \in DOMAIN links : BothBound(l) /\ links[l].up

====
